---- MODULE Spec2Model ----
(***************************************************************************)
(* Model of triangle.c: display/context bootstrap (init_ogl), scene setup  *)
(* (init_scene) and the frame loop of main.  One action per statement of   *)
(* the program; pc holds the line number of the next statement to run.     *)
(* The EGL / GLES / dispmanx libraries are the environment: every call may *)
(* succeed or fail, a failing gl* command records an error code in the     *)
(* context's error flag (glerr), which glGetError returns and clears.      *)
(***************************************************************************)
EXTENDS Integers, Sequences, FiniteSets, TLC

\* ---------------------------------------------------------------- bounds
MaxSec == 11      \* gettimeofday returns tv_sec in 10..MaxSec
MaxIter == 2      \* the iteration counter saturates here

\* ------------------------------------------------------- program constants
GL_NO_ERROR == 0
GLErrorCodes == {1282, 1285}   \* GL_INVALID_OPERATION, GL_OUT_OF_MEMORY
NoHandle == 0                  \* EGL_NO_DISPLAY, EGL_NO_CONTEXT, EGL_NO_SURFACE, DISPMANX_NO_HANDLE, GL name 0
USecs == {100000, 500000}
Timestamps == [tv_sec : 10..MaxSec, tv_usec : USecs]
Resolutions == {<<1920, 1080>>, <<1280, 720>>}
NoTimestamp == [tv_sec |-> -1, tv_usec |-> -1]   \* no gettimeofday result yet

VARIABLES
  pc,             \* line of the next statement
  aborted,        \* an assert has fired (abort()); pc stays at the failing line
  returned,       \* main has returned: "no" or the exit code
  state,          \* OPENGL_STATE_T _state
  dispman,        \* init_ogl locals dispman_display / _update / _element
  glerr,          \* the GL error flag read by glGetError
  current,        \* a context is current (eglMakeCurrent succeeded)
  live,           \* number of live objects of each kind in the driver
  status,         \* compile status of both shaders and link status
  tv, tv_last,    \* main's struct timeval tv, tv_last
  delta,          \* the argument of the last render call
  prev_capture,   \* timestamp gettimeofday returned in the previous iteration
  frame,          \* clear / draw / swap calls issued since the loop head
  iter,           \* iterations begun (saturating at MaxIter)
  failed,         \* a step of init_ogl / init_scene returned its failure
                  \* sentinel or left an error code in the GL error flag
  gl_no_context,  \* a gl* call has been issued while no context was current
  logs            \* number of showlog / showprogramlog calls

vars == <<pc, aborted, returned, state, dispman, glerr, current, live, status,
          tv, tv_last, delta, prev_capture, frame, iter, failed,
          gl_no_context, logs>>

timing == <<tv, tv_last, delta, prev_capture>>
loopv == <<frame, iter, returned>>

\* ------------------------------------------------------------- helpers
\* memset(state, 0, sizeof(*state))
ClearedState ==
  [screen_width |-> 0, screen_height |-> 0, display |-> 0, surface |-> 0,
   context |-> 0, vshader |-> 0, fshader |-> 0, program |-> 0,
   attr_vertex |-> 0, vbo_triangle |-> 0, verbose |-> 0]

NoObjects ==
  [display |-> 0, context |-> 0, surface |-> 0, element |-> 0,
   shader |-> 0, program |-> 0, buffer |-> 0]

\* error flag after a gl* command that generates an error: the flag keeps
\* the first error recorded until glGetError reads it
GlFail(e) == IF e = GL_NO_ERROR THEN GLErrorCodes ELSE {e}

\* what glGetError() can return: the flag of the current context; with no
\* current context the result is undefined
GetErrorResult == IF current THEN {glerr} ELSE {GL_NO_ERROR} \cup GLErrorCodes

At(l) == pc = l /\ ~aborted /\ returned = "no"
Goto(l) == pc' = l /\ aborted' = FALSE
Abort == pc' = pc /\ aborted' = TRUE

\* a gl* command without a result: ok or error recorded
GlCmd(ok) ==
  /\ glerr' \in (IF ok THEN {glerr} ELSE GlFail(glerr))
  /\ gl_no_context' = (gl_no_context \/ ~current)

\* #define check() assert(glGetError() == 0)
check(from, to) ==
  /\ At(from)
  /\ \E e \in GetErrorResult :
       IF e = 0 THEN Goto(to) ELSE Abort
  /\ glerr' = GL_NO_ERROR
  /\ gl_no_context' = (gl_no_context \/ ~current)
  /\ UNCHANGED <<state, dispman, current, live, status, timing, loopv, failed, logs>>

Init ==
  /\ pc = "L294" /\ aborted = FALSE /\ returned = "no"
  /\ state = ClearedState            \* static storage is zero-initialised
  /\ dispman = [display |-> 0, update |-> 0, element |-> 0]
  /\ glerr = GL_NO_ERROR /\ current = FALSE
  /\ live = NoObjects
  /\ status = [vshader |-> "none", fshader |-> "none", program |-> "none"]
  /\ tv = NoTimestamp                \* written by gettimeofday before any read
  /\ tv_last \in Timestamps          \* uninitialised automatic, read at line 313
  /\ delta = 0 /\ prev_capture = NoTimestamp
  /\ frame = <<>> /\ iter = 0
  /\ failed = FALSE /\ gl_no_context = FALSE /\ logs = 0

\* ------------------------------------------------------------------ main
\* memset(state, 1, sizeof(*state)): every field becomes non-zero
main_memset_294_ones ==
  /\ At("L294") /\ Goto("L82")
  /\ state' = [f \in DOMAIN ClearedState |-> 1]
  /\ UNCHANGED <<dispman, glerr, current, live, status, timing, loopv, failed,
                 gl_no_context, logs>>

main_memset_294 ==
  /\ At("L294") /\ Goto("L82")
  /\ state' = ClearedState
  /\ UNCHANGED <<dispman, glerr, current, live, status, timing, loopv, failed,
                 gl_no_context, logs>>

\* -------------------------------------------------------------- init_ogl
bcm_host_init_82 ==
  /\ At("L82") /\ Goto("L113")
  /\ UNCHANGED <<state, dispman, glerr, current, live, status, timing, loopv,
                 failed, gl_no_context, logs>>

\* an EGL call returning EGLBoolean, followed by assert(EGL_FALSE != result)
EglBoolean(from, to) ==
  /\ At(from)
  /\ \E result \in BOOLEAN :
       /\ IF result THEN Goto(to) ELSE Abort
       /\ failed' = (failed \/ ~result)
  /\ UNCHANGED <<state, dispman, glerr, live, status, timing, loopv,
                 gl_no_context, logs>>

eglGetDisplay_113 ==
  /\ At("L113")
  /\ \E h \in {NoHandle, 1} :
       /\ state' = [state EXCEPT !.display = h]
       /\ IF h # NoHandle
            THEN Goto("L115") /\ live' = [live EXCEPT !.display = @ + 1]
            ELSE Abort /\ live' = live
       /\ failed' = (failed \/ h = NoHandle)
  /\ UNCHANGED <<dispman, glerr, current, status, timing, loopv, gl_no_context, logs>>

check_115 == check("L115", "L118")

eglInitialize_118 == EglBoolean("L118", "L120") /\ current' = current

check_120 == check("L120", "L123")

eglChooseConfig_123 == EglBoolean("L123", "L125") /\ current' = current

check_125 == check("L125", "L128")

eglBindAPI_128 == EglBoolean("L128", "L130") /\ current' = current

check_130 == check("L130", "L133")

eglCreateContext_133 ==
  /\ At("L133")
  /\ \E h \in {NoHandle, 1} :
       /\ state' = [state EXCEPT !.context = h]
       /\ IF h # NoHandle
            THEN Goto("L135") /\ live' = [live EXCEPT !.context = @ + 1]
            ELSE Abort /\ live' = live
       /\ failed' = (failed \/ h = NoHandle)
  /\ UNCHANGED <<dispman, glerr, current, status, timing, loopv, gl_no_context, logs>>

check_135 == check("L135", "L138")

\* success = graphics_get_display_size(0, &w, &h); assert(success >= 0);
\* lines 141-149 only fill the local rectangles
graphics_get_display_size_138 ==
  /\ At("L138")
  /\ \E success \in {-1, 0} :
       /\ IF success >= 0
            THEN /\ Goto("L151")
                 /\ \E r \in Resolutions :
                      state' = [state EXCEPT !.screen_width = r[1],
                                             !.screen_height = r[2]]
            ELSE Abort /\ state' = state
       /\ failed' = (failed \/ success < 0)
  /\ UNCHANGED <<dispman, glerr, current, live, status, timing, loopv,
                 gl_no_context, logs>>

\* the three dispmanx handles are stored and never tested
vc_dispmanx_display_open_151 ==
  /\ At("L151") /\ Goto("L152")
  /\ \E h \in {NoHandle, 1} :
       /\ dispman' = [dispman EXCEPT !.display = h]
       /\ failed' = (failed \/ h = NoHandle)
  /\ UNCHANGED <<state, glerr, current, live, status, timing, loopv,
                 gl_no_context, logs>>

vc_dispmanx_update_start_152 ==
  /\ At("L152") /\ Goto("L154")
  /\ \E h \in {NoHandle, 1} :
       /\ dispman' = [dispman EXCEPT !.update = h]
       /\ failed' = (failed \/ h = NoHandle)
  /\ UNCHANGED <<state, glerr, current, live, status, timing, loopv,
                 gl_no_context, logs>>

vc_dispmanx_element_add_154 ==
  /\ At("L154") /\ Goto("L161")
  /\ \E h \in {NoHandle, 1} :
       /\ dispman' = [dispman EXCEPT !.element = h]
       /\ live' = [live EXCEPT !.element = IF h # NoHandle THEN @ + 1 ELSE @]
       /\ failed' = (failed \/ h = NoHandle)
  /\ UNCHANGED <<state, glerr, current, status, timing, loopv, gl_no_context, logs>>

\* lines 158-160 fill nativewindow; the int result of submit_sync is dropped
vc_dispmanx_update_submit_sync_161 ==
  /\ At("L161") /\ Goto("L162")
  /\ \E result \in {-1, 0} : failed' = (failed \/ result < 0)
  /\ UNCHANGED <<state, dispman, glerr, current, live, status, timing, loopv,
                 gl_no_context, logs>>

check_162 == check("L162", "L164")

eglCreateWindowSurface_164 ==
  /\ At("L164")
  /\ \E h \in {NoHandle, 1} :
       /\ state' = [state EXCEPT !.surface = h]
       /\ IF h # NoHandle
            THEN Goto("L166") /\ live' = [live EXCEPT !.surface = @ + 1]
            ELSE Abort /\ live' = live
       /\ failed' = (failed \/ h = NoHandle)
  /\ UNCHANGED <<dispman, glerr, current, status, timing, loopv, gl_no_context, logs>>

check_166 == check("L166", "L169")

eglMakeCurrent_169 ==
  /\ At("L169")
  /\ \E result \in BOOLEAN :
       /\ IF result THEN Goto("L171") ELSE Abort
       /\ current' = result
       /\ failed' = (failed \/ ~result)
  /\ UNCHANGED <<state, dispman, glerr, live, status, timing, loopv,
                 gl_no_context, logs>>

check_171 == check("L171", "L174")

glClearColor_174 ==
  /\ At("L174") /\ Goto("L175")
  /\ \E ok \in BOOLEAN : GlCmd(ok) /\ failed' = (failed \/ ~ok)
  /\ UNCHANGED <<state, dispman, current, live, status, timing, loopv, logs>>

glClear_175 ==
  /\ At("L175") /\ Goto("L176")
  /\ \E ok \in BOOLEAN : GlCmd(ok) /\ failed' = (failed \/ ~ok)
  /\ frame' = Append(frame, "glClear")
  /\ UNCHANGED <<state, dispman, current, live, status, timing, iter, returned, logs>>

check_176 == check("L176", "L209")

\* ------------------------------------------------------------ init_scene
\* a gl* command of init_scene that only can record an error
SceneCmd(from, to) ==
  /\ At(from) /\ Goto(to)
  /\ \E ok \in BOOLEAN : GlCmd(ok) /\ failed' = (failed \/ ~ok)
  /\ UNCHANGED <<state, dispman, current, live, status, timing, loopv, logs>>

\* glCreateShader / glCreateProgram return 0 when the object cannot be created
glCreateShader_209 ==
  /\ At("L209") /\ Goto("L210")
  /\ \E h \in {NoHandle, 1} :
       /\ state' = [state EXCEPT !.vshader = h]
       /\ live' = [live EXCEPT !.shader = IF h # NoHandle THEN @ + 1 ELSE @]
       /\ glerr' \in (IF h # NoHandle THEN {glerr} ELSE {glerr} \cup GlFail(glerr))
       /\ failed' = (failed \/ h = NoHandle)
  /\ gl_no_context' = (gl_no_context \/ ~current)
  /\ UNCHANGED <<dispman, current, status, timing, loopv, logs>>

glShaderSource_210 == SceneCmd("L210", "L211")

\* the compile status stays inside the driver: it is never queried
glCompileShader_211 ==
  /\ At("L211") /\ Goto("L212")
  /\ \E ok \in BOOLEAN :
       /\ GlCmd(ok) /\ failed' = (failed \/ ~ok)
       /\ \E st \in (IF ok /\ state.vshader # NoHandle THEN {"ok", "failed"} ELSE {"failed"}) :
            status' = [status EXCEPT !.vshader = st]
  /\ UNCHANGED <<state, dispman, current, live, timing, loopv, logs>>

check_212 == check("L212", "L213")

\* a variant that asserts the compile status of the vertex shader
if_verbose_213_status ==
  /\ At("L213")
  /\ IF status.vshader = "ok" THEN Goto("L216") ELSE Abort
  /\ IF state.verbose # 0
       THEN logs' = logs + 1 /\ \E ok \in BOOLEAN : GlCmd(ok)
       ELSE UNCHANGED <<logs, glerr, gl_no_context>>
  /\ UNCHANGED <<state, dispman, current, live, status, timing, loopv, failed>>

\* if (state->verbose) showlog(state->vshader);
if_verbose_213 ==
  /\ At("L213") /\ Goto("L216")
  /\ IF state.verbose # 0
       THEN logs' = logs + 1 /\ \E ok \in BOOLEAN : GlCmd(ok)
       ELSE UNCHANGED <<logs, glerr, gl_no_context>>
  /\ UNCHANGED <<state, dispman, current, live, status, timing, loopv, failed>>

glCreateShader_216 ==
  /\ At("L216") /\ Goto("L217")
  /\ \E h \in {NoHandle, 2} :
       /\ state' = [state EXCEPT !.fshader = h]
       /\ live' = [live EXCEPT !.shader = IF h # NoHandle THEN @ + 1 ELSE @]
       /\ glerr' \in (IF h # NoHandle THEN {glerr} ELSE {glerr} \cup GlFail(glerr))
       /\ failed' = (failed \/ h = NoHandle)
  /\ gl_no_context' = (gl_no_context \/ ~current)
  /\ UNCHANGED <<dispman, current, status, timing, loopv, logs>>

glShaderSource_217 == SceneCmd("L217", "L218")

glCompileShader_218 ==
  /\ At("L218") /\ Goto("L219")
  /\ \E ok \in BOOLEAN :
       /\ GlCmd(ok) /\ failed' = (failed \/ ~ok)
       /\ \E st \in (IF ok /\ state.fshader # NoHandle THEN {"ok", "failed"} ELSE {"failed"}) :
            status' = [status EXCEPT !.fshader = st]
  /\ UNCHANGED <<state, dispman, current, live, timing, loopv, logs>>

check_219 == check("L219", "L220")

if_verbose_220 ==
  /\ At("L220") /\ Goto("L223")
  /\ IF state.verbose # 0
       THEN logs' = logs + 1 /\ \E ok \in BOOLEAN : GlCmd(ok)
       ELSE UNCHANGED <<logs, glerr, gl_no_context>>
  /\ UNCHANGED <<state, dispman, current, live, status, timing, loopv, failed>>

glCreateProgram_223 ==
  /\ At("L223") /\ Goto("L224")
  /\ \E h \in {NoHandle, 3} :
       /\ state' = [state EXCEPT !.program = h]
       /\ live' = [live EXCEPT !.program = IF h # NoHandle THEN @ + 1 ELSE @]
       /\ glerr' \in (IF h # NoHandle THEN {glerr} ELSE {glerr} \cup GlFail(glerr))
       /\ failed' = (failed \/ h = NoHandle)
  /\ gl_no_context' = (gl_no_context \/ ~current)
  /\ UNCHANGED <<dispman, current, status, timing, loopv, logs>>

glAttachShader_224 == SceneCmd("L224", "L225")

glAttachShader_225 == SceneCmd("L225", "L226")

\* linking fails when a shader did not compile; the link status is not queried
glLinkProgram_226 ==
  /\ At("L226") /\ Goto("L227")
  /\ \E ok \in BOOLEAN :
       /\ GlCmd(ok) /\ failed' = (failed \/ ~ok)
       /\ \E st \in (IF /\ ok /\ state.program # NoHandle
                          /\ status.vshader = "ok" /\ status.fshader = "ok"
                       THEN {"ok", "failed"} ELSE {"failed"}) :
            status' = [status EXCEPT !.program = st]
  /\ UNCHANGED <<state, dispman, current, live, timing, loopv, logs>>

check_227 == check("L227", "L228")

\* if (state->verbose) showprogramlog(state->program);
if_verbose_228 ==
  /\ At("L228") /\ Goto("L231")
  /\ IF state.verbose # 0
       THEN logs' = logs + 1 /\ \E ok \in BOOLEAN : GlCmd(ok)
       ELSE UNCHANGED <<logs, glerr, gl_no_context>>
  /\ UNCHANGED <<state, dispman, current, live, status, timing, loopv, failed>>

\* glDeleteShader(0) is silently ignored
DeleteShader(from, to, h) ==
  /\ At(from) /\ Goto(to)
  /\ \E ok \in BOOLEAN :
       /\ GlCmd(ok) /\ failed' = (failed \/ ~ok)
       /\ live' = [live EXCEPT !.shader = IF ok /\ h # NoHandle THEN @ - 1 ELSE @]
  /\ UNCHANGED <<state, dispman, current, status, timing, loopv, logs>>

glDeleteShader_231 == DeleteShader("L231", "L232", state.vshader)

glDeleteShader_232 == DeleteShader("L232", "L235", state.fshader)

\* glGetAttribLocation returns -1 when "vertex" is not an active attribute
glGetAttribLocation_235 ==
  /\ At("L235") /\ Goto("L245")
  /\ \E ok \in BOOLEAN :
       /\ GlCmd(ok)
       /\ \E loc \in (IF ok /\ status.program = "ok" THEN {0, -1} ELSE {-1}) :
            /\ state' = [state EXCEPT !.attr_vertex = loc]
            /\ failed' = (failed \/ ~ok \/ loc = -1)
  /\ UNCHANGED <<dispman, current, live, status, timing, loopv, logs>>

\* glGenBuffers(2, ...): two buffer objects
glGenBuffers_245_two ==
  /\ At("L245") /\ Goto("L246")
  /\ \E ok \in BOOLEAN :
       /\ GlCmd(ok) /\ failed' = (failed \/ ~ok)
       /\ state' = [state EXCEPT !.vbo_triangle = IF ok THEN 1 ELSE @]
       /\ live' = [live EXCEPT !.buffer = IF ok THEN @ + 2 ELSE @]
  /\ UNCHANGED <<dispman, current, status, timing, loopv, logs>>

\* glGenBuffers(1, &state->vbo_triangle): a failing command leaves the field
glGenBuffers_245 ==
  /\ At("L245") /\ Goto("L246")
  /\ \E ok \in BOOLEAN :
       /\ GlCmd(ok) /\ failed' = (failed \/ ~ok)
       /\ state' = [state EXCEPT !.vbo_triangle = IF ok THEN 1 ELSE @]
       /\ live' = [live EXCEPT !.buffer = IF ok THEN @ + 1 ELSE @]
  /\ UNCHANGED <<dispman, current, status, timing, loopv, logs>>

check_246 == check("L246", "L247")

glBindBuffer_247 == SceneCmd("L247", "L248")

glBufferData_248 == SceneCmd("L248", "L303")

\* ------------------------------------------------------- main, frame loop
glViewport_303 ==
  /\ At("L303") /\ Goto("L306")
  /\ \E ok \in BOOLEAN : GlCmd(ok)
  /\ UNCHANGED <<state, dispman, current, live, status, timing, loopv, failed, logs>>

\* while (frames < 2)
LoopCond_bounded == iter < 2

\* while(1)
LoopCond == TRUE

\* (tv.tv_sec - tv_last.tv_sec) * 1e6 + tv.tv_usec - tv_last.tv_usec, computed
\* in double and converted to long; exact for the timestamps modelled here
Elapsed(t, t0) == (t.tv_sec - t0.tv_sec) * 1000000 + t.tv_usec - t0.tv_usec

\* the loop head; when the condition is false control falls to lines 322-326:
\* glDeleteProgram, glDeleteBuffers, return 0
while_306 ==
  /\ At("L306")
  /\ IF LoopCond
       THEN /\ Goto("L309")
            /\ frame' = <<>>
            /\ iter' = IF iter < MaxIter THEN iter + 1 ELSE iter
            /\ UNCHANGED <<live, returned, glerr, gl_no_context>>
       ELSE /\ Goto("L326")
            /\ live' = [live EXCEPT
                          !.program = IF state.program # NoHandle THEN @ - 1 ELSE @,
                          !.buffer = IF state.vbo_triangle # NoHandle THEN @ - 1 ELSE @]
            /\ \E ok \in BOOLEAN : GlCmd(ok)
            /\ returned' = "0"
            /\ UNCHANGED <<frame, iter>>
  /\ UNCHANGED <<state, dispman, current, status, timing, failed, logs>>

glClear_309 ==
  /\ At("L309") /\ Goto("L312")
  /\ \E ok \in BOOLEAN : GlCmd(ok)
  /\ frame' = Append(frame, "glClear")
  /\ UNCHANGED <<state, dispman, current, live, status, timing, iter, returned,
                 failed, logs>>

gettimeofday_312 ==
  /\ At("L312") /\ Goto("L313")
  /\ tv' \in Timestamps
  /\ prev_capture' = tv
  /\ UNCHANGED <<state, dispman, glerr, current, live, status, tv_last, delta,
                 loopv, failed, gl_no_context, logs>>

\* render issuing glDrawArrays twice
render_draws_twice ==
  /\ At("L313") /\ Goto("L314")
  /\ delta' = Elapsed(tv, tv_last)
  /\ \E ok \in BOOLEAN : GlCmd(ok)
  /\ frame' = Append(Append(frame, "glDrawArrays"), "glDrawArrays")
  /\ UNCHANGED <<state, dispman, current, live, status, tv, tv_last,
                 prev_capture, iter, returned, failed, logs>>

\* render generating a fresh vertex buffer on every call
render_regen ==
  /\ At("L313") /\ Goto("L314")
  /\ delta' = Elapsed(tv, tv_last)
  /\ \E ok \in BOOLEAN : GlCmd(ok)
  /\ frame' = Append(frame, "glDrawArrays")
  /\ live' = [live EXCEPT !.buffer = IF @ < 3 THEN @ + 1 ELSE @]
  /\ UNCHANGED <<state, dispman, current, status, tv, tv_last,
                 prev_capture, iter, returned, failed, logs>>

\* render(delta): printf, glUseProgram, glVertexAttribPointer,
\* glEnableVertexAttribArray, glDrawArrays(GL_TRIANGLES, 0, 3)
render ==
  /\ At("L313") /\ Goto("L314")
  /\ delta' = Elapsed(tv, tv_last)
  /\ \E ok \in BOOLEAN : GlCmd(ok)
  /\ frame' = Append(frame, "glDrawArrays")
  /\ UNCHANGED <<state, dispman, current, live, status, tv, tv_last,
                 prev_capture, iter, returned, failed, logs>>

\* tv_last = tv;
assign_tv_last_314 ==
  /\ At("L314") /\ Goto("L317")
  /\ tv_last' = tv
  /\ UNCHANGED <<state, dispman, glerr, current, live, status, tv, delta,
                 prev_capture, loopv, failed, gl_no_context, logs>>

\* the EGLBoolean result of eglSwapBuffers is dropped
eglSwapBuffers_317 ==
  /\ At("L317") /\ Goto("L318")
  /\ frame' = Append(frame, "eglSwapBuffers")
  /\ UNCHANGED <<state, dispman, glerr, current, live, status, timing, iter,
                 returned, failed, gl_no_context, logs>>

\* check() compiled with NDEBUG: the assert expands to nothing
check_318_ndebug ==
  /\ At("L318") /\ Goto("L306")
  /\ UNCHANGED <<state, dispman, glerr, current, live, status, timing, loopv,
                 failed, gl_no_context, logs>>

check_318 == check("L318", "L306")

Next ==
  \/ main_memset_294 \/ bcm_host_init_82
  \/ eglGetDisplay_113 \/ check_115 \/ eglInitialize_118 \/ check_120
  \/ eglChooseConfig_123 \/ check_125 \/ eglBindAPI_128 \/ check_130
  \/ eglCreateContext_133 \/ check_135 \/ graphics_get_display_size_138
  \/ vc_dispmanx_display_open_151 \/ vc_dispmanx_update_start_152
  \/ vc_dispmanx_element_add_154 \/ vc_dispmanx_update_submit_sync_161
  \/ check_162 \/ eglCreateWindowSurface_164 \/ check_166
  \/ eglMakeCurrent_169 \/ check_171 \/ glClearColor_174 \/ glClear_175
  \/ check_176
  \/ glCreateShader_209 \/ glShaderSource_210 \/ glCompileShader_211
  \/ check_212 \/ if_verbose_213
  \/ glCreateShader_216 \/ glShaderSource_217 \/ glCompileShader_218
  \/ check_219 \/ if_verbose_220
  \/ glCreateProgram_223 \/ glAttachShader_224 \/ glAttachShader_225
  \/ glLinkProgram_226 \/ check_227 \/ if_verbose_228
  \/ glDeleteShader_231 \/ glDeleteShader_232 \/ glGetAttribLocation_235
  \/ glGenBuffers_245 \/ check_246 \/ glBindBuffer_247 \/ glBufferData_248
  \/ glViewport_303 \/ while_306 \/ glClear_309 \/ gettimeofday_312
  \/ render \/ assign_tv_last_314 \/ eglSwapBuffers_317 \/ check_318

Spec == Init /\ [][Next]_vars

\* ---------------------------------------------------------------- labels
OglLabels ==
  {"L82", "L113", "L115", "L118", "L120", "L123", "L125", "L128", "L130",
   "L133", "L135", "L138", "L151", "L152", "L154", "L161", "L162", "L164",
   "L166", "L169", "L171", "L174", "L175", "L176"}

\* the statements of init_scene in program order, then glViewport and the loop head
SceneLines ==
  <<"L209", "L210", "L211", "L212", "L213", "L216", "L217", "L218", "L219",
    "L220", "L223", "L224", "L225", "L226", "L227", "L228", "L231", "L232",
    "L235", "L245", "L246", "L247", "L248", "L303", "L306">>

SceneLabels == {SceneLines[i] : i \in 1..(Len(SceneLines) - 2)}
SetupLabels == OglLabels \cup SceneLabels
LoopLabels == {"L306", "L309", "L312", "L313", "L314", "L317", "L318"}
CheckLabels ==
  {"L115", "L120", "L125", "L130", "L135", "L162", "L166", "L171", "L176",
   "L212", "L219", "L227", "L246", "L318"}

SceneSucc(l) == SceneLines[(CHOOSE i \in 1..(Len(SceneLines) - 1) : SceneLines[i] = l) + 1]

FullFrame == <<"glClear", "glDrawArrays", "eglSwapBuffers">>

\* --------------------------------------------------------------- claims

\* C1: in every iteration of the frame loop the calls issued since the loop
\* head are exactly one glClear, then one glDrawArrays (in render), then one
\* eglSwapBuffers, in that order; nothing else is cleared, drawn or swapped
\* before the next iteration begins.
C1_FrameOrder ==
  /\ pc = "L309" => frame = <<>>
  /\ pc \in {"L312", "L313"} => frame = <<"glClear">>
  /\ pc \in {"L314", "L317"} => frame = <<"glClear", "glDrawArrays">>
  /\ pc = "L318" => frame = FullFrame
  /\ (pc = "L306" /\ iter > 0) => frame = FullFrame

C1_Witness == pc = "L306" /\ iter = 2 /\ frame = FullFrame /\ ~aborted

\* C2: once a step of init_ogl or init_scene has failed (failure sentinel
\* returned or an error code left in the GL error flag), the only step the
\* process takes is the abort: no later statement runs.
C2_FailStop == [][(failed /\ ~aborted) => aborted']_vars

\* C3: when an error code is pending at the check() that follows
\* eglSwapBuffers, the process aborts at that check, and an aborted process
\* takes no further step (no clear, draw or swap).
C3_AbortAfterSwap ==
  [][/\ ~aborted
     /\ (pc = "L318" /\ glerr # GL_NO_ERROR) =>
          (aborted' /\ pc' = "L318" /\ frame' = frame)]_vars

C3_Witness == aborted /\ pc = "L318" /\ iter = 2 /\ frame = FullFrame

\* C4: the number of live objects of every kind changes only in steps of
\* init_ogl and init_scene; no step of the frame loop creates or destroys one.
C4_ResourcesOnlyInSetup == [][live' # live => pc \in SetupLabels]_vars

C4_Witness ==
  /\ pc = "L318" /\ iter = 2 /\ ~aborted
  /\ live.program = 1 /\ live.buffer = 1 /\ live.shader = 0 /\ live.surface = 1

\* C5: once in the frame loop control stays in the frame loop, and main
\* never runs the cleanup (glDeleteProgram, glDeleteBuffers) nor returns 0.
C5_RunningIsTerminal ==
  [][returned' = "no" /\ (pc \in LoopLabels => pc' \in LoopLabels)]_vars

C5_Witness == pc = "L309" /\ iter = 2 /\ returned = "no" /\ live.program = 1

\* C6 (as stated): in every state exactly one program object and exactly
\* one vertex buffer object exist.
C6_ExactlyOneAlways == live.program = 1 /\ live.buffer = 1

\* C6 (amended): at most one program object and at most one vertex buffer
\* object exist at any time; none exists before init_scene creates it, each
\* exists from its successful creation on, and every frame-loop state has
\* exactly one vertex buffer.
C6_AtMostOne ==
  /\ live.program <= 1 /\ live.buffer <= 1
  /\ (live.program = 1) <=> (state.program # NoHandle)
  /\ (live.buffer = 1) <=> (state.vbo_triangle # NoHandle)
  /\ pc \in OglLabels \cup {"L294"} => (live.program = 0 /\ live.buffer = 0)
  /\ pc \in LoopLabels => live.buffer = 1

C6_Witness == pc = "L318" /\ iter = 2 /\ live.program = 1 /\ live.buffer = 1

\* C7: whenever render has been called, a timestamp was captured in the
\* previous iteration and delta is the number of microseconds from that
\* timestamp to the one captured in this iteration.
C7_DeltaSincePrevious ==
  pc = "L314" => (prev_capture # NoTimestamp /\ delta = Elapsed(tv, prev_capture))

\* C8: the verbose flag is zero throughout and showlog / showprogramlog are
\* never called.
C8_NeverVerbose == state.verbose = 0 /\ logs = 0

C8_Witness == pc = "L231" /\ ~aborted /\ status.program # "none"

C10_ContextBeforeGl == ~gl_no_context
====
